---- MODULE Spec2Model ----
(***************************************************************************)
(* Model of the useSpeechRecognition hook of Meeting-Scribe                *)
(* (hooks/useSpeechRecognition) together with the host objects it talks    *)
(* to: the SpeechRecognition sessions it constructs and the Permissions    *)
(* API.  Every handler of the hook is one atomic action (JavaScript runs   *)
(* each callback to completion and React commits the batched state         *)
(* updates before the next callback of the component is invoked).          *)
(*                                                                         *)
(* Strings are sequences of one-character strings; " " is the space.       *)
(***************************************************************************)
EXTENDS Integers, Sequences, FiniteSets, TLC

VARIABLES
    hasRecognitionSupport,  \* !!getSpeechRecognition()
    hasPermissionsApi,      \* !!navigator.permissions
    mounted,                \* the component using the hook is mounted
    isListening,            \* useState(false)
    transcript,             \* useState('')
    error,                  \* useState(null)
    permissionStatus,       \* useState('prompt')
    recognitionRef,         \* useRef(null): 0 is null, else index in sessions
    sessions,               \* the SpeechRecognition objects constructed so far
    hostPerm,               \* permission.state of the host's PermissionStatus, if any
    permPc,                 \* position of checkPermission
    changePending,          \* a change event of the permission is queued
    resultsLeft,            \* onresult events the host may still deliver
    nPermChanges,           \* host permission changes so far
    last,                   \* the operation that ran last, and the case it met
    heard,                  \* while clean: finalized text of each onresult since the last start
    clean,                  \* last start saw an empty transcript, no reset since
    lastFinals,             \* the final results, from resultIndex on, of the onresult just handled
    content,                \* NoteEditor: useState('') of the note's text
    updates,                \* setTranscript calls React has queued for the next render
    effectPending,          \* the transcript effect of the last render has not run yet
    notes,                  \* App: useState<MeetingNote[]>([])
    currentNoteId,          \* App: useState<string | null>(null)
    now                     \* the host's clock, in milliseconds

mgrVars == <<isListening, transcript, error, permissionStatus, recognitionRef>>

vars == <<hasRecognitionSupport, hasPermissionsApi, mounted, isListening,
          transcript, error, permissionStatus, recognitionRef, sessions,
          hostPerm, permPc, changePending, resultsLeft, nPermChanges, last,
          heard, clean, lastFinals, content, updates, effectPending,
          notes, currentNoteId, now>>

----------------------------------------------------------------------------
(* Bounds *)

MaxSessions == 2
MaxResults == 3
LifecycleResults == 1
MaxSegments == 2
MaxPermChanges == 1
MaxNotes == 3
MaxTime == 3

----------------------------------------------------------------------------
(* Values *)

Chars == {"h", "w"}
SegmentTexts == {<<c>> : c \in Chars}

HostPermStates == {"prompt", "granted", "denied"}

\* currentNoteId === null
NoNote == 0
\* what the editor saves as a note's text
NoteTexts == {<<>>, <<"h">>}
PermissionStatuses == HostPermStates \cup {"unavailable"}

\* "aborted" stands for every code the handler has no branch for
ErrorCodes == {"no-speech", "not-allowed", "service-not-allowed", "network", "aborted"}

NoError == <<"null">>
ErrAccessDenied == <<"mic-access-denied-allow-and-reload">>
ErrNetwork == <<"network-error">>
ErrNoPermission == <<"mic-no-permission-allow-in-settings">>
ErrGeneric(code) == <<"speech-recognition-error", code>>

SpeechRecognitionResult == [isFinal : BOOLEAN, transcript : SegmentTexts]

ResultLists == UNION {[1..n -> SpeechRecognitionResult] : n \in 1..MaxSegments}

SpeechRecognitionEvent ==
    {e \in [resultIndex : 0..MaxSegments, results : ResultLists] :
        e.resultIndex <= Len(e.results)}

\* the events of one final result and one text, enough where the events are
\* not the subject
SingleResultEvents ==
    {e \in SpeechRecognitionEvent :
        /\ Len(e.results) = 1
        /\ e.resultIndex = 0
        /\ e.results[1].isFinal
        /\ e.results[1].transcript = <<"h">>}

Op(name, code) == [op |-> name, code |-> code]

----------------------------------------------------------------------------
(* Pure parts of the handlers *)

\* variant: the isFinal test is missing
RECURSIVE FinalFromAll(_, _)
FinalFromAll(results, i) ==
    IF i >= Len(results) THEN <<>>
    ELSE results[i + 1].transcript \o FinalFromAll(results, i + 1)

\* handleResult, the loop: concatenation of the final results from resultIndex on
RECURSIVE FinalFrom(_, _)
FinalFrom(results, i) ==
    IF i >= Len(results) THEN <<>>
    ELSE (IF results[i + 1].isFinal THEN results[i + 1].transcript ELSE <<>>)
         \o FinalFrom(results, i + 1)

FinalTranscript(event) == FinalFrom(event.results, event.resultIndex)

\* variant: the separator is added even to an empty transcript
AppendTranscriptAlwaysSpace(prev, finalTranscript) ==
    prev \o <<" ">> \o finalTranscript

\* prev => (prev ? prev + ' ' : '') + finalTranscript
AppendTranscript(prev, finalTranscript) ==
    (IF prev # <<>> THEN prev \o <<" ">> ELSE <<>>) \o finalTranscript

\* the results of an event that handleResult looks at
Considered(event) ==
    SubSeq(event.results, event.resultIndex + 1, Len(event.results))

IsFinalResult(r) == r.isFinal

\* handleResult: the transcript after the event
ResultTranscript(prev, event) ==
    IF FinalTranscript(event) # <<>>
    THEN AppendTranscript(prev, FinalTranscript(event))
    ELSE prev

\* variant: no code is swallowed
ErrorSwallowedNever(code) == FALSE

\* handleError: the early return
ErrorSwallowed(code) == code = "no-speech"

IsPermissionError(code) == code \in {"not-allowed", "service-not-allowed"}

\* variant: the network branch is missing
ErrorMessageNoNetwork(code) ==
    IF IsPermissionError(code) THEN ErrAccessDenied
    ELSE ErrGeneric(code)

\* handleError: the message of the three branches
ErrorMessage(code) ==
    IF IsPermissionError(code) THEN ErrAccessDenied
    ELSE IF code = "network" THEN ErrNetwork
    ELSE ErrGeneric(code)

\* variant: the permission status is left to the permission monitor
ErrorPermissionKeep(code, perm) == perm

\* handleError: setPermissionStatus('denied') in the first branch only
ErrorPermission(code, perm) ==
    IF IsPermissionError(code) THEN "denied" ELSE perm

\* variant: the check of navigator.permissions is missing
InitialPermissionStatusPrompt(api) == "prompt"

\* the permission effect's synchronous part
InitialPermissionStatus(api) == IF api THEN "prompt" ELSE "unavailable"

NewSession == [stops |-> 0, ended |-> FALSE]

\* recognition.stop() on session s
StopSession(ss, s) == [ss EXCEPT ![s].stops = @ + 1]

----------------------------------------------------------------------------
(* State after the first render and its effects *)

Init ==
    /\ hasRecognitionSupport \in BOOLEAN
    /\ hasPermissionsApi \in BOOLEAN
    /\ mounted = TRUE
    /\ isListening = FALSE
    /\ transcript = <<>>
    /\ error = NoError
    /\ permissionStatus = InitialPermissionStatus(hasPermissionsApi)
    /\ recognitionRef = 0
    /\ sessions = <<>>
    /\ hostPerm \in (IF hasPermissionsApi THEN HostPermStates ELSE {"none"})
    /\ permPc = IF hasPermissionsApi THEN "querying" ELSE "none"
    /\ changePending = FALSE
    /\ resultsLeft = LifecycleResults
    /\ nPermChanges = 0
    /\ last = Op("init", "")
    /\ heard = <<>>
    /\ clean = FALSE
    /\ lastFinals = <<>>
    /\ content = <<>>
    /\ updates = <<>>
    /\ effectPending = FALSE
    /\ notes = <<>>
    /\ currentNoteId = NoNote
    /\ now = 1

hostVars == <<hasRecognitionSupport, hasPermissionsApi, hostPerm>>
permVars == <<permPc, changePending, nPermChanges>>
editorVars == <<content, updates, effectPending>>
appVars == <<notes, currentNoteId, now>>

----------------------------------------------------------------------------
(* Caller operations *)

Phase == IF isListening THEN "listening" ELSE "idle"

\* variant: the isListening guard is missing
StartGuardNoListeningCheck ==
    IF ~hasRecognitionSupport THEN "unsupported"
    ELSE IF permissionStatus = "denied" THEN "denied"
    ELSE "pass"

\* variant: a denied permission returns silently, like the first guard
StartGuardDeniedSilent ==
    IF ~hasRecognitionSupport THEN "unsupported"
    ELSE IF isListening \/ permissionStatus = "denied" THEN "listening"
    ELSE "pass"

\* variant: a start is refused while an error is shown
StartGuardBlockedByError ==
    IF ~hasRecognitionSupport THEN "unsupported"
    ELSE IF isListening \/ error # NoError THEN "listening"
    ELSE IF permissionStatus = "denied" THEN "denied"
    ELSE "pass"

\* startListening: the guard the call stops at, "pass" if none
StartGuard ==
    IF ~hasRecognitionSupport THEN "unsupported"
    ELSE IF isListening THEN "listening"
    ELSE IF permissionStatus = "denied" THEN "denied"
    ELSE "pass"

\* variant: setError(null) is missing
StartListeningKeepError ==
    /\ mounted
    /\ last' = Op("start", StartGuard)
    /\ lastFinals' = <<>>
    /\ UNCHANGED <<editorVars, appVars>>
    /\ IF StartGuard \in {"unsupported", "listening"}
       THEN UNCHANGED <<mgrVars, sessions, heard, clean>>
       ELSE IF StartGuard = "denied"
       THEN /\ error' = ErrNoPermission
            /\ UNCHANGED <<isListening, transcript, permissionStatus,
                           recognitionRef, sessions, heard, clean>>
       ELSE /\ Len(sessions) < MaxSessions
            /\ sessions' = Append(sessions, NewSession)
            /\ isListening' = TRUE
            /\ recognitionRef' = Len(sessions) + 1
            /\ heard' = <<>>
            /\ clean' = (transcript = <<>>)
            /\ UNCHANGED <<transcript, permissionStatus, error>>
    /\ UNCHANGED <<hostVars, permVars, mounted, resultsLeft>>

StartListening ==
    /\ mounted
    /\ last' = Op("start", StartGuard)
    /\ lastFinals' = <<>>
    /\ UNCHANGED <<editorVars, appVars>>
    /\ IF StartGuard \in {"unsupported", "listening"}
       THEN UNCHANGED <<mgrVars, sessions, heard, clean>>
       ELSE IF StartGuard = "denied"
       THEN /\ error' = ErrNoPermission
            /\ UNCHANGED <<isListening, transcript, permissionStatus,
                           recognitionRef, sessions, heard, clean>>
       ELSE /\ Len(sessions) < MaxSessions
            /\ error' = NoError
            /\ sessions' = Append(sessions, NewSession)
            /\ isListening' = TRUE
            /\ recognitionRef' = Len(sessions) + 1
            /\ heard' = <<>>
            /\ clean' = (transcript = <<>>)
            /\ UNCHANGED <<transcript, permissionStatus>>
    /\ UNCHANGED <<hostVars, permVars, mounted, resultsLeft>>

\* variant: stop is requested but isListening is left to onend
StopListeningAwaitEnd ==
    /\ mounted
    /\ last' = Op("stop", Phase)
    /\ lastFinals' = <<>>
    /\ UNCHANGED <<editorVars, appVars>>
    /\ IF recognitionRef # 0 /\ isListening
       THEN sessions' = StopSession(sessions, recognitionRef)
       ELSE UNCHANGED sessions
    /\ UNCHANGED <<hostVars, permVars, mounted, resultsLeft, isListening,
                   transcript, error, permissionStatus, recognitionRef,
                   heard, clean>>

StopListening ==
    /\ mounted
    /\ last' = Op("stop", Phase)
    /\ lastFinals' = <<>>
    /\ UNCHANGED <<editorVars, appVars>>
    /\ IF recognitionRef # 0 /\ isListening
       THEN /\ sessions' = StopSession(sessions, recognitionRef)
            /\ isListening' = FALSE
       ELSE UNCHANGED <<sessions, isListening>>
    /\ UNCHANGED <<hostVars, permVars, mounted, resultsLeft, transcript, error,
                   permissionStatus, recognitionRef, heard, clean>>

\* the consuming view's setTranscript('')
ResetTranscript ==
    /\ mounted
    /\ transcript # <<>>
    /\ transcript' = <<>>
    /\ clean' = FALSE
    /\ heard' = <<>>
    /\ last' = Op("reset", "")
    /\ lastFinals' = <<>>
    /\ UNCHANGED <<editorVars, appVars>>
    /\ UNCHANGED <<hostVars, permVars, mounted, resultsLeft, isListening, error,
                   permissionStatus, recognitionRef, sessions>>

\* variant: no cleanup
UnmountNoStop ==
    /\ mounted
    /\ mounted' = FALSE
    /\ last' = Op("unmount", Phase)
    /\ lastFinals' = <<>>
    /\ UNCHANGED <<editorVars, appVars>>
    /\ UNCHANGED <<hostVars, permVars, resultsLeft, mgrVars, sessions, heard, clean>>

\* cleanup of the unmount effect
Unmount ==
    /\ mounted
    /\ mounted' = FALSE
    /\ last' = Op("unmount", Phase)
    /\ lastFinals' = <<>>
    /\ UNCHANGED <<editorVars, appVars>>
    /\ IF recognitionRef # 0
       THEN sessions' = StopSession(sessions, recognitionRef)
       ELSE UNCHANGED sessions
    /\ UNCHANGED <<hostVars, permVars, resultsLeft, mgrVars, heard, clean>>

----------------------------------------------------------------------------
(* Callbacks of a session: the host may call them until it has reported onend *)

Delivering(s) == mounted /\ s \in 1..Len(sessions) /\ ~sessions[s].ended

OnResult(s, event) ==
    /\ Delivering(s)
    /\ resultsLeft > 0
    /\ resultsLeft' = resultsLeft - 1
    /\ transcript' = ResultTranscript(transcript, event)
    /\ heard' = IF clean THEN Append(heard, FinalTranscript(event)) ELSE heard
    /\ last' = Op("onresult", "")
    /\ lastFinals' = SelectSeq(Considered(event), IsFinalResult)
    /\ UNCHANGED <<editorVars, appVars>>
    /\ UNCHANGED <<hostVars, permVars, mounted, isListening, error,
                   permissionStatus, recognitionRef, sessions, clean>>

OnError(s, code) ==
    /\ Delivering(s)
    /\ last' = Op("onerror", code)
    /\ lastFinals' = <<>>
    /\ UNCHANGED <<editorVars, appVars>>
    /\ IF ErrorSwallowed(code)
       THEN UNCHANGED <<error, permissionStatus, isListening>>
       ELSE /\ error' = ErrorMessage(code)
            /\ permissionStatus' = ErrorPermission(code, permissionStatus)
            /\ isListening' = FALSE
    /\ UNCHANGED <<hostVars, permVars, mounted, resultsLeft, transcript,
                   recognitionRef, sessions, heard, clean>>

\* variant: setIsListening(prev => !prev)
OnEndToggle(s) ==
    /\ Delivering(s)
    /\ sessions' = [sessions EXCEPT ![s].ended = TRUE]
    /\ isListening' = ~isListening
    /\ last' = Op("onend", Phase)
    /\ lastFinals' = <<>>
    /\ UNCHANGED <<editorVars, appVars>>
    /\ UNCHANGED <<hostVars, permVars, mounted, resultsLeft, transcript, error,
                   permissionStatus, recognitionRef, heard, clean>>

\* variant: an end while Listening is reported as an error
OnEndReportsError(s) ==
    /\ Delivering(s)
    /\ sessions' = [sessions EXCEPT ![s].ended = TRUE]
    /\ isListening' = FALSE
    /\ error' = IF isListening THEN ErrGeneric("ended") ELSE error
    /\ last' = Op("onend", Phase)
    /\ lastFinals' = <<>>
    /\ UNCHANGED <<editorVars, appVars>>
    /\ UNCHANGED <<hostVars, permVars, mounted, resultsLeft, transcript,
                   permissionStatus, recognitionRef, heard, clean>>

OnEnd(s) ==
    /\ Delivering(s)
    /\ sessions' = [sessions EXCEPT ![s].ended = TRUE]
    /\ isListening' = FALSE
    /\ last' = Op("onend", Phase)
    /\ lastFinals' = <<>>
    /\ UNCHANGED <<editorVars, appVars>>
    /\ UNCHANGED <<hostVars, permVars, mounted, resultsLeft, transcript, error,
                   permissionStatus, recognitionRef, heard, clean>>

----------------------------------------------------------------------------
(* Permission monitor *)

\* await navigator.permissions.query(...) resolves; onchange is subscribed
QueryResolve ==
    /\ mounted
    /\ permPc = "querying"
    /\ permPc' = "subscribed"
    /\ permissionStatus' = hostPerm
    /\ last' = Op("query", hostPerm)
    /\ lastFinals' = <<>>
    /\ UNCHANGED <<editorVars, appVars>>
    /\ UNCHANGED <<hostVars, changePending, nPermChanges, mounted, resultsLeft,
                   isListening, transcript, error, recognitionRef, sessions,
                   heard, clean>>

\* the query throws
QueryReject ==
    /\ mounted
    /\ permPc = "querying"
    /\ permPc' = "failed"
    /\ permissionStatus' = "unavailable"
    /\ last' = Op("queryfail", "")
    /\ lastFinals' = <<>>
    /\ UNCHANGED <<editorVars, appVars>>
    /\ UNCHANGED <<hostVars, changePending, nPermChanges, mounted, resultsLeft,
                   isListening, transcript, error, recognitionRef, sessions,
                   heard, clean>>

\* the user changes the microphone permission in the browser
HostPermissionChange(p) ==
    /\ mounted
    /\ hasPermissionsApi
    /\ nPermChanges < MaxPermChanges
    /\ p # hostPerm
    /\ hostPerm' = p
    /\ nPermChanges' = nPermChanges + 1
    /\ changePending' = (permPc = "subscribed")
    /\ last' = Op("hostchange", p)
    /\ lastFinals' = <<>>
    /\ UNCHANGED <<editorVars, appVars>>
    /\ UNCHANGED <<hasRecognitionSupport, hasPermissionsApi, permPc, mounted,
                   resultsLeft, mgrVars, sessions, heard, clean>>

\* variant: the notification is taken but the status read at the query is kept
PermissionOnChangeStale ==
    /\ mounted
    /\ permPc = "subscribed"
    /\ changePending
    /\ changePending' = FALSE
    /\ last' = Op("onchange", hostPerm)
    /\ lastFinals' = <<>>
    /\ UNCHANGED <<editorVars, appVars>>
    /\ UNCHANGED <<hostVars, permPc, nPermChanges, mounted, resultsLeft,
                   mgrVars, sessions, heard, clean>>

\* permission.onchange
PermissionOnChange ==
    /\ mounted
    /\ permPc = "subscribed"
    /\ changePending
    /\ changePending' = FALSE
    /\ permissionStatus' = hostPerm
    /\ last' = Op("onchange", hostPerm)
    /\ lastFinals' = <<>>
    /\ UNCHANGED <<editorVars, appVars>>
    /\ UNCHANGED <<hostVars, permPc, nPermChanges, mounted, resultsLeft,
                   isListening, transcript, error, recognitionRef, sessions,
                   heard, clean>>

----------------------------------------------------------------------------

Next ==
    \/ StartListening
    \/ StopListening
    \/ ResetTranscript
    \/ Unmount
    \/ \E s \in 1..MaxSessions, event \in SingleResultEvents : OnResult(s, event)
    \/ \E s \in 1..MaxSessions, code \in ErrorCodes : OnError(s, code)
    \/ \E s \in 1..MaxSessions : OnEnd(s)
    \/ QueryResolve
    \/ QueryReject
    \/ \E p \in HostPermStates : HostPermissionChange(p)
    \/ PermissionOnChange

Spec == Init /\ [][Next]_vars

(* One Listening session of a host without Permissions API, with all the
   events of up to MaxSegments results *)

InitTranscript ==
    /\ hasRecognitionSupport = TRUE
    /\ hasPermissionsApi = FALSE
    /\ mounted = TRUE
    /\ isListening = FALSE
    /\ transcript = <<>>
    /\ error = NoError
    /\ permissionStatus = InitialPermissionStatus(hasPermissionsApi)
    /\ recognitionRef = 0
    /\ sessions = <<>>
    /\ hostPerm = "none"
    /\ permPc = "none"
    /\ changePending = FALSE
    /\ resultsLeft = MaxResults
    /\ nPermChanges = 0
    /\ last = Op("init", "")
    /\ heard = <<>>
    /\ clean = FALSE
    /\ lastFinals = <<>>
    /\ content = <<>>
    /\ updates = <<>>
    /\ effectPending = FALSE
    /\ notes = <<>>
    /\ currentNoteId = NoNote
    /\ now = 1

NextTranscript ==
    \/ StartListening
    \/ ResetTranscript
    \/ \E s \in 1..MaxSessions, event \in SpeechRecognitionEvent : OnResult(s, event)

SpecTranscript == InitTranscript /\ [][NextTranscript]_vars

(* The NoteEditor that consumes the transcript: handleResult and the editor's
   effect both call setTranscript, React applies the queued calls in order at
   the next render and runs the effect of a render after it, with the
   transcript that render saw *)

\* the events of one result, final or not, of either text
EditorEvents ==
    {e \in SpeechRecognitionEvent : Len(e.results) = 1 /\ e.resultIndex = 0}

Updater(fn, arg) == [fn |-> fn, arg |-> arg]

\* setTranscript(prev => ...) and setTranscript('') applied in queue order
RECURSIVE ApplyUpdates(_, _)
ApplyUpdates(prev, queue) ==
    IF queue = <<>> THEN prev
    ELSE ApplyUpdates(IF Head(queue).fn = "append"
                      THEN AppendTranscript(prev, Head(queue).arg)
                      ELSE Head(queue).arg,
                      Tail(queue))

\* setContent(prev => (prev ? prev + ' ' : '') + transcript)
AppendContent(prev, text) ==
    (IF prev # <<>> THEN prev \o <<" ">> ELSE <<>>) \o text

\* handleResult, its setTranscript call left in React's queue
HandleResultQueued(s, event) ==
    /\ Delivering(s)
    /\ resultsLeft > 0
    /\ resultsLeft' = resultsLeft - 1
    /\ updates' = IF FinalTranscript(event) # <<>>
                  THEN Append(updates, Updater("append", FinalTranscript(event)))
                  ELSE updates
    /\ heard' = IF clean THEN Append(heard, FinalTranscript(event)) ELSE heard
    /\ last' = Op("onresult", "queued")
    /\ lastFinals' = SelectSeq(Considered(event), IsFinalResult)
    /\ UNCHANGED <<hostVars, permVars, mgrVars, mounted, sessions, clean,
                   content, effectPending, appVars>>

\* a render: the effects of the render before it have run, the queued
\* setTranscript calls are applied, the effect is scheduled when the
\* transcript changed
Render ==
    /\ mounted
    /\ updates # <<>>
    /\ ~effectPending
    /\ transcript' = ApplyUpdates(transcript, updates)
    /\ updates' = <<>>
    /\ effectPending' = (transcript' # transcript)
    /\ last' = Op("render", "")
    /\ lastFinals' = <<>>
    /\ UNCHANGED <<hostVars, permVars, mounted, isListening, error,
                   permissionStatus, recognitionRef, sessions, resultsLeft,
                   heard, clean, content, appVars>>

\* the effect on [transcript, setTranscript], with the transcript of its render
DrainEffect ==
    /\ mounted
    /\ effectPending
    /\ effectPending' = FALSE
    /\ IF transcript # <<>>
       THEN /\ content' = AppendContent(content, transcript)
            /\ updates' = Append(updates, Updater("set", <<>>))
       ELSE UNCHANGED <<content, updates>>
    /\ last' = Op("effect", IF transcript # <<>> THEN "drain" ELSE "empty")
    /\ lastFinals' = <<>>
    /\ UNCHANGED <<hostVars, permVars, mgrVars, mounted, sessions,
                   resultsLeft, heard, clean, appVars>>

InitEditor == InitTranscript

NextEditor ==
    \/ StartListening
    \/ \E s \in 1..MaxSessions, event \in EditorEvents : HandleResultQueued(s, event)
    \/ Render
    \/ DrainEffect

SpecEditor == InitEditor /\ [][NextEditor]_vars

(* The App that owns the notes: new, select, save and delete *)

MeetingNote(id, createdAt, text) ==
    [id |-> id, createdAt |-> createdAt, content |-> text]

\* prevNotes.filter(note => note.id !== id)
RemainingNotes(prevNotes, id) ==
    LET keep(note) == note.id # id IN SelectSeq(prevNotes, keep)

\* one step of the sort: note goes behind the notes that are not older
InsertNote(sorted, note) ==
    LET k == Cardinality({i \in 1..Len(sorted) :
                             sorted[i].createdAt >= note.createdAt})
    IN  SubSeq(sorted, 1, k) \o <<note>> \o SubSeq(sorted, k + 1, Len(sorted))

\* [...list].sort((a, b) => b.createdAt - a.createdAt): newest first, notes
\* of one createdAt in the order of the list
RECURSIVE SortNewestFirst(_)
SortNewestFirst(list) ==
    IF list = <<>> THEN <<>>
    ELSE InsertNote(SortNewestFirst(SubSeq(list, 1, Len(list) - 1)),
                    list[Len(list)])

\* sortedRemaining.length > 0 ? sortedRemaining[0].id : null
NextSelection(remainingNotes) ==
    IF SortNewestFirst(remainingNotes) # <<>>
    THEN SortNewestFirst(remainingNotes)[1].id
    ELSE NoNote

\* notes.find(note => note.id === currentNoteId) || null, as a list of 0 or 1
CurrentNote ==
    LET found(note) == note.id = currentNoteId
    IN  IF SelectSeq(notes, found) = <<>> THEN <<>>
        ELSE <<SelectSeq(notes, found)[1]>>

ListedIds == {notes[i].id : i \in 1..Len(notes)}

AppFrame ==
    /\ lastFinals' = <<>>
    /\ UNCHANGED <<hostVars, permVars, mgrVars, mounted, sessions,
                   resultsLeft, heard, clean, editorVars>>

\* time passes between two operations
Tick ==
    /\ now < MaxTime
    /\ now' = now + 1
    /\ last' = Op("tick", "")
    /\ UNCHANGED <<notes, currentNoteId>>
    /\ AppFrame

\* handleNewNote: Date.now() for the id, new Date() for createdAt, read one
\* after the other
HandleNewNote ==
    /\ Len(notes) < MaxNotes
    /\ \E t \in now..MaxTime :
         /\ notes' = <<MeetingNote(now, t, <<>>)>> \o notes
         /\ now' = t
    /\ currentNoteId' = now
    /\ last' = Op("new", "")
    /\ AppFrame

\* handleSelectNote, from the Sidebar's list
HandleSelectNote(id) ==
    /\ id \in ListedIds
    /\ currentNoteId' = id
    /\ last' = Op("select", "")
    /\ UNCHANGED <<notes, now>>
    /\ AppFrame

\* handleSaveNote
HandleSaveNote(updatedNote) ==
    /\ notes' = [i \in 1..Len(notes) |->
                    IF notes[i].id = updatedNote.id THEN updatedNote ELSE notes[i]]
    /\ last' = Op("save", "")
    /\ UNCHANGED <<currentNoteId, now>>
    /\ AppFrame

\* NoteEditor handleSave: onSave({ ...note, title, content, summary })
EditorSave(text) ==
    /\ CurrentNote # <<>>
    /\ HandleSaveNote([CurrentNote[1] EXCEPT !.content = text])

\* variant: the selection is left as it was
HandleDeleteNoteKeepSelection(id) ==
    /\ id \in ListedIds
    /\ notes' = RemainingNotes(notes, id)
    /\ UNCHANGED currentNoteId
    /\ last' = Op("delete", IF currentNoteId = id THEN "current" ELSE "other")
    /\ UNCHANGED now
    /\ AppFrame

\* handleDeleteNote
HandleDeleteNote(id) ==
    /\ id \in ListedIds
    /\ notes' = RemainingNotes(notes, id)
    /\ currentNoteId' = IF currentNoteId = id
                        THEN NextSelection(RemainingNotes(notes, id))
                        ELSE currentNoteId
    /\ last' = Op("delete", IF currentNoteId = id THEN "current" ELSE "other")
    /\ UNCHANGED now
    /\ AppFrame

InitNotes == InitTranscript

NextNotes ==
    \/ Tick
    \/ HandleNewNote
    \/ \E id \in 1..MaxTime : HandleSelectNote(id)
    \/ \E text \in NoteTexts : EditorSave(text)
    \/ \E id \in 1..MaxTime : HandleDeleteNote(id)

SpecNotes == InitNotes /\ [][NextNotes]_vars

TypeOK ==
    /\ isListening \in BOOLEAN
    /\ permissionStatus \in PermissionStatuses
    /\ recognitionRef \in 0..Len(sessions)
    /\ Len(sessions) <= MaxSessions

----------------------------------------------------------------------------
(* Reference definitions used by the properties *)

RECURSIVE JoinSpace(_)
JoinSpace(texts) ==
    IF texts = <<>> THEN <<>>
    ELSE IF Len(texts) = 1 THEN texts[1]
    ELSE texts[1] \o <<" ">> \o JoinSpace(Tail(texts))

NonEmptyText(t) == t # <<>>

\* a session the manager started and neither stopped nor saw end
Live(s) == sessions[s].stops = 0 /\ ~sessions[s].ended

LiveSessions == {s \in 1..Len(sessions) : Live(s)}

\* every session but s is as it was
OthersUntouched(s) ==
    /\ Len(sessions') = Len(sessions)
    /\ \A t \in 1..Len(sessions) : t # s => sessions'[t] = sessions[t]

----------------------------------------------------------------------------
(* Properties *)

\* C1: in a session started on an empty transcript and with no reset by the
\* consumer, the transcript is the finalized texts of the onresult events,
\* in order of delivery, joined by single spaces (an event without finalized
\* text contributes nothing), with no space at either end.
C1_TranscriptIsJoin ==
    clean =>
        /\ transcript = JoinSpace(SelectSeq(heard, NonEmptyText))
        /\ transcript # <<>> =>
              transcript[1] # " " /\ transcript[Len(transcript)] # " "

C1_Witness ==
    /\ clean
    /\ heard = << <<"h">>, <<"w">> >>
    /\ transcript = <<"h", " ", "w">>

\* C2 as stated: startListening changes nothing when the capability is
\* absent, when already Listening, or when permissionStatus is denied.
C2_StartIsNoOp ==
    [][(last'.op = "start"
         /\ (~hasRecognitionSupport \/ isListening \/ permissionStatus = "denied"))
        => UNCHANGED <<mgrVars, sessions>>]_vars

\* C2 amended: without capability or while Listening startListening changes
\* nothing; with permissionStatus denied (Idle, capability present) it
\* constructs no session and changes nothing but the error.
C2_StartIsNoOpButError ==
    [][last'.op = "start" =>
        /\ (~hasRecognitionSupport \/ isListening) => UNCHANGED <<mgrVars, sessions>>
        /\ permissionStatus = "denied" =>
              UNCHANGED <<isListening, transcript, permissionStatus,
                          recognitionRef, sessions>>]_vars

C2_Witness ==
    /\ last = Op("start", "listening")
    /\ isListening
    /\ Len(sessions) = 1
    /\ Live(1)

\* C3: startListening while Idle, with the capability and permissionStatus
\* denied, sets the no-permission message, stays Idle and constructs no session.
C3_DeniedStartSetsError ==
    [][(last'.op = "start" /\ hasRecognitionSupport /\ ~isListening
         /\ permissionStatus = "denied")
        => /\ error' = ErrNoPermission
           /\ isListening' = FALSE
           /\ sessions' = sessions
           /\ recognitionRef' = recognitionRef]_vars

C3_Witness ==
    /\ last = Op("start", "denied")
    /\ error = ErrNoPermission
    /\ ~isListening
    /\ permissionStatus = "denied"

\* C4: onerror 'no-speech' changes no state of the manager; a null error
\* stays null.
C4_NoSpeechChangesNothing ==
    [][(last'.op = "onerror" /\ last'.code = "no-speech")
        => /\ UNCHANGED <<mgrVars, sessions>>
           /\ error = NoError => error' = NoError]_vars

C4_Witness ==
    /\ last = Op("onerror", "no-speech")
    /\ isListening
    /\ error = NoError

\* C5: after onerror 'not-allowed' or 'service-not-allowed' permissionStatus
\* is denied, isListening is false and the error is the access-denied
\* message, whatever the permission monitor reported.
C5_NotAllowedForcesDenied ==
    (last.op = "onerror" /\ IsPermissionError(last.code))
        => /\ permissionStatus = "denied"
           /\ ~isListening
           /\ error = ErrAccessDenied

C5_Witness ==
    /\ last = Op("onerror", "service-not-allowed")
    /\ permPc = "subscribed"
    /\ ~changePending
    /\ hostPerm = "granted"
    /\ permissionStatus = "denied"

\* C6: stopListening while Idle changes nothing and stops no session; while
\* Listening it calls stop on the session of recognitionRef and sets
\* isListening to false in the same step, the session not having ended.
C6_StopIsImmediate ==
    [][last'.op = "stop" =>
        IF isListening
        THEN /\ recognitionRef # 0
             /\ sessions'[recognitionRef].stops = sessions[recognitionRef].stops + 1
             /\ ~sessions'[recognitionRef].ended
             /\ OthersUntouched(recognitionRef)
             /\ isListening' = FALSE
        ELSE UNCHANGED <<mgrVars, sessions>>]_vars

C6_Witness ==
    /\ last = Op("stop", "listening")
    /\ ~isListening
    /\ recognitionRef # 0
    /\ sessions[recognitionRef].stops = 1
    /\ ~sessions[recognitionRef].ended

\* C7: unmounting while Listening calls stop on the session of
\* recognitionRef, which then has been stopped exactly once.
C7_TeardownStopsOnce ==
    [][(last'.op = "unmount" /\ isListening)
        => /\ recognitionRef # 0
           /\ sessions[recognitionRef].stops = 0
           /\ sessions'[recognitionRef].stops = 1
           /\ OthersUntouched(recognitionRef)]_vars

C7_Witness ==
    /\ last = Op("unmount", "listening")
    /\ ~mounted
    /\ recognitionRef # 0
    /\ sessions[recognitionRef].stops = 1
    /\ ~sessions[recognitionRef].ended

\* C8 as stated: without Permissions API permissionStatus is unavailable in
\* every state.
C8_UnavailableForever ==
    ~hasPermissionsApi => permissionStatus = "unavailable"

\* C8 amended: without Permissions API permissionStatus is unavailable at
\* initialization and changes only by an onerror 'not-allowed' or
\* 'service-not-allowed', which sets it to denied; it is unavailable until
\* such an error and denied ever after.
C8_UnavailableUntilNotAllowed ==
    /\ ~hasPermissionsApi => permissionStatus = "unavailable"
    /\ [][~hasPermissionsApi =>
            permissionStatus' =
                IF last'.op = "onerror" /\ IsPermissionError(last'.code)
                THEN "denied" ELSE permissionStatus]_vars

C8_Witness ==
    /\ ~hasPermissionsApi
    /\ last = Op("onerror", "network")
    /\ Len(sessions) = 2
    /\ permissionStatus = "unavailable"

\* C9: at most one session is live (started, not stopped by the manager, not
\* ended by the host) in every reachable state.
C9_AtMostOneLive == Cardinality(LiveSessions) <= 1

\* C10: every step that leaves Listening (stopListening, onerror, onend) and
\* the unmount while Listening call stop on the session of recognitionRef.
C10_StopOnEveryExit ==
    [][(isListening /\ (~isListening' \/ last'.op = "unmount"))
        => /\ recognitionRef # 0
           /\ sessions'[recognitionRef].stops = sessions[recognitionRef].stops + 1]_vars

\* C11: right after a startListening that constructs a session and enters
\* Listening the error is null, whatever an earlier session left in it.
C11_StartClearsError ==
    last = Op("start", "pass") => (isListening /\ error = NoError)

\* session 1 was left by an error (neither stopped nor ended), session 2 started
C11_Witness ==
    /\ last = Op("start", "pass")
    /\ Len(sessions) = 2
    /\ Live(1)
    /\ error = NoError

\* C12 as stated: with the subscription in place and no notification
\* outstanding, permissionStatus is the host's current value.
C12_StatusIsHostValue ==
    (permPc = "subscribed" /\ ~changePending) => permissionStatus = hostPerm

\* C12 amended: with the subscription in place and no notification
\* outstanding, permissionStatus is the host's current value or the denied
\* that an onerror 'not-allowed' / 'service-not-allowed' forced; it leaves the
\* host's value only by such an error or by a host change not yet notified,
\* and each notification sets it to the host's value.
C12_StatusIsHostValueOrForced ==
    /\ []((permPc = "subscribed" /\ ~changePending)
            => permissionStatus \in {hostPerm, "denied"})
    /\ [][last'.op = "onchange" => permissionStatus' = hostPerm']_vars
    /\ [][(permPc = "subscribed" /\ permissionStatus = hostPerm
            /\ permissionStatus' # hostPerm')
          => \/ last'.op = "hostchange"
             \/ last'.op = "onerror" /\ IsPermissionError(last'.code)]_vars

\* a notification has replaced a forced denied by the host's new value
C12_Witness ==
    /\ last = Op("onchange", "prompt")
    /\ error = ErrAccessDenied
    /\ hostPerm = "prompt"
    /\ permissionStatus = "prompt"

\* C13: onerror 'network' sets the network message, any code without a
\* branch the generic message with that code; both set isListening false
\* and leave permissionStatus and transcript as they were.
C13_NetworkAndOtherErrors ==
    [][(last'.op = "onerror"
         /\ last'.code \notin {"no-speech", "not-allowed", "service-not-allowed"})
        => /\ error' = IF last'.code = "network" THEN ErrNetwork
                       ELSE <<"speech-recognition-error", last'.code>>
           /\ isListening' = FALSE
           /\ UNCHANGED <<permissionStatus, transcript>>]_vars

C13_Witness ==
    /\ last = Op("onerror", "network")
    /\ error = ErrNetwork
    /\ ~isListening
    /\ permissionStatus = "granted"

\* C14: a startListening while Idle, with the capability and a
\* permissionStatus other than denied, constructs and starts a session and
\* sets isListening to true, also after an error.
C14_UsableAfterError ==
    [][(last'.op = "start" /\ ~isListening /\ hasRecognitionSupport
         /\ permissionStatus # "denied")
        => /\ isListening' = TRUE
           /\ Len(sessions') = Len(sessions) + 1
           /\ recognitionRef' = Len(sessions')
           /\ sessions'[recognitionRef'].stops = 0
           /\ ~sessions'[recognitionRef'].ended
           /\ \A t \in 1..Len(sessions) : sessions'[t] = sessions[t]]_vars

\* started again after a network or unclassified error was shown
C14_Witness ==
    /\ last = Op("start", "pass")
    /\ isListening
    /\ recognitionRef = 2
    /\ sessions[1].stops = 0
    /\ sessions[1].ended
    /\ Live(2)

\* C15: while Idle the manager holds no session handle.
C15_IdleHoldsNoHandle == ~isListening => recognitionRef = 0

\* C17: onend sets isListening to false and leaves error, transcript and
\* permissionStatus as they were.
C17_EndOnlyLeavesListening ==
    [][last'.op = "onend"
        => /\ isListening' = FALSE
           /\ UNCHANGED <<error, transcript, permissionStatus, recognitionRef>>]_vars

\* the host ended the session while Listening, no error shown
C17_Witness ==
    /\ last = Op("onend", "listening")
    /\ ~isListening
    /\ error = NoError
    /\ sessions[recognitionRef].stops = 0

\* C18: an onerror or onend handled right after the same event leaves the
\* manager as the first left it; an onend right after stopListening changes
\* nothing; a permission notification sets permissionStatus to the host's
\* value and nothing else, so a repeated one changes nothing.
C18_RedundantEvents ==
    /\ [][(last'.op \in {"onerror", "onend"} /\ last.op = last'.op
            /\ (last'.op = "onerror" => last.code = last'.code))
          => UNCHANGED mgrVars]_vars
    /\ [][(last.op = "stop" /\ last'.op = "onend") => UNCHANGED mgrVars]_vars
    /\ [][last'.op = "onchange"
          => /\ permissionStatus' = hostPerm'
             /\ UNCHANGED <<isListening, transcript, error, recognitionRef>>]_vars

\* onend of the stopped session, delivered while Idle
C18_Witness ==
    /\ last = Op("onend", "idle")
    /\ recognitionRef # 0
    /\ sessions[recognitionRef].stops = 1
    /\ sessions[recognitionRef].ended
    /\ ~isListening

\* C19: while the session started last is live and has reported neither an
\* error nor its end, isListening is true: events of an earlier session do
\* not take the manager out of Listening.  An error reported by the session
\* started last stays in `error` until the next session is started, so a null
\* error says that this session has reported none.
C19_NewestSessionKeepsListening ==
    (mounted /\ sessions # <<>> /\ Live(Len(sessions)) /\ error = NoError)
        => isListening

\* the texts of results, one after the other
RECURSIVE ConcatTexts(_)
ConcatTexts(results) ==
    IF results = <<>> THEN <<>>
    ELSE results[1].transcript \o ConcatTexts(Tail(results))

\* C16: an onresult event with no final result from resultIndex on changes
\* nothing of the manager and of the sessions; an event with final results
\* adds the texts of its final results only, after a space when the
\* transcript was not empty, and changes nothing else
C16_InterimIgnored ==
    [][last' = Op("onresult", "") =>
         /\ lastFinals' = <<>> => UNCHANGED <<mgrVars, sessions>>
         /\ lastFinals' # <<>> =>
               /\ transcript' = (IF transcript = <<>> THEN <<>>
                                 ELSE transcript \o <<" ">>)
                                \o ConcatTexts(lastFinals')
               /\ UNCHANGED <<isListening, error, permissionStatus,
                              recognitionRef, sessions>>]_vars

C16_Witness ==
    /\ last = Op("onresult", "")
    /\ clean
    /\ heard = << <<"h">>, <<>> >>
    /\ lastFinals = <<>>
    /\ transcript = <<"h">>

\* C20: when the editor has drained everything (nothing queued, no effect
\* to run, transcript empty), the content is the join, in delivery order
\* and with single spaces, of the final texts delivered since the start
C20_DrainLosesNothing ==
    (clean /\ updates = <<>> /\ ~effectPending /\ transcript = <<>>)
        => content = JoinSpace(SelectSeq(heard, NonEmptyText))

\* C21: the selected id is null or the id of a listed note; deleting the
\* selected note removes the notes of that id, keeps the others in order,
\* and selects a remaining note that no remaining note is newer than, or
\* null when none remains
C21_SelectionIsListed ==
    /\ [](currentNoteId = NoNote
            \/ \E i \in 1..Len(notes) : notes[i].id = currentNoteId)
    /\ [][last' = Op("delete", "current") =>
            /\ \A i \in 1..Len(notes') : notes'[i].id # currentNoteId
            /\ Len(notes') = Cardinality({i \in 1..Len(notes) :
                                            notes[i].id # currentNoteId})
            /\ notes' = <<>> => currentNoteId' = NoNote
            /\ notes' # <<>> =>
                  \E i \in 1..Len(notes') :
                     /\ notes'[i].id = currentNoteId'
                     /\ \A j \in 1..Len(notes') :
                           notes'[j].createdAt <= notes'[i].createdAt]_vars

C21_Witness ==
    /\ last = Op("delete", "current")
    /\ Len(notes) = 2
    /\ notes[1].createdAt > notes[2].createdAt
    /\ currentNoteId = notes[1].id

====
